---- MODULE Spec2Model ----
(***************************************************************************)
(* puppeteer-extra-plugin-page-proxy: the per-page proxy registry          *)
(* (page.useProxy, proxyCfgMap, reqHdlRegSet) and the request handler      *)
(* (PuppeteerPageProxyPlugin.onRequest) of src/src/plugin.js.              *)
(*                                                                         *)
(* JavaScript values are written as their source text: "undefined",        *)
(* "null", "''", "false", "true", "0", "1", "'http://a:1'".                *)
(***************************************************************************)
EXTENDS Naturals, Sequences, FiniteSets

\* ---------------------------------------------------------------- bounds
MaxRequests == 1
MaxUseProxyCalls == 2

\* ------------------------------------------------------------ JS values
Pages == {"page1", "page2"}

ProxyA == "'http://a:1'"
ProxyB == "'socks://b:2'"
ProxyG == "'http://g:3'"

\* A proxy URL without a scheme.
ProxyBad == "'b:2'"

JSStrings == {"''", ProxyA, ProxyB, ProxyG, ProxyBad}

Falsy == {"undefined", "null", "''", "false", "0"}

Truthy(v) == v \notin Falsy

\* a || b
Or(a, b) == IF Truthy(a) THEN a ELSE b

\* The identifiers the debug call of onRequest reads that are bound neither
\* in onRequest nor in the module: they resolve on the global object or not
\* at all.
FreeIdentifiers == {"type", "shouldBlock"}

\* The options object of a call, an absent key reading as "undefined".
NoOpts == [onlyNavigation |-> "undefined", interceptResolutionPriority |-> "undefined"]

\* get defaults()
defaults == [proxyUrl |-> "undefined",
             interceptResolutionPriority |-> "undefined",
             onlyNavigation |-> "undefined"]

\* constructor(proxyUrl, opts = {}): the options handed to the base class,
\* merged over the defaults.
Constructor(proxyUrl, o) ==
    IF proxyUrl \in JSStrings
    THEN [proxyUrl |-> proxyUrl,
          interceptResolutionPriority |-> o.interceptResolutionPriority,
          onlyNavigation |-> o.onlyNavigation]
    ELSE defaults

\* The constructor calls explored.
ConstructorArgs ==
    { [proxyUrl |-> "undefined", opts |-> NoOpts],
      [proxyUrl |-> ProxyG, opts |-> NoOpts],
      [proxyUrl |-> ProxyG,
       opts |-> [onlyNavigation |-> "true", interceptResolutionPriority |-> "2"]] }

\* The page.useProxy calls explored.
UseProxyArgs ==
    { [proxyUrl |-> "undefined", opts |-> NoOpts],
      [proxyUrl |-> "null", opts |-> NoOpts],
      [proxyUrl |-> "''", opts |-> NoOpts],
      [proxyUrl |-> ProxyA,
       opts |-> [onlyNavigation |-> "true", interceptResolutionPriority |-> "undefined"]],
      [proxyUrl |-> ProxyB,
       opts |-> [onlyNavigation |-> "undefined", interceptResolutionPriority |-> "1"]],
      [proxyUrl |-> ProxyA,
       opts |-> [onlyNavigation |-> "false", interceptResolutionPriority |-> "0"]],
      [proxyUrl |-> ProxyBad, opts |-> NoOpts] }

\* What getProxiedResponse can resolve to.
Responses ==
    { [status |-> 200, headers |-> "x-test: 1", body |-> "hello"],
      [status |-> 302, headers |-> "location: /next", body |-> ""] }

NoResponse == [status |-> 0, headers |-> "", body |-> ""]

VARIABLES
    globalScope,      \* the identifiers of FreeIdentifiers bound on the global object
    host,             \* which optional methods the host's request objects have
    opts,             \* this.opts: the plugin's global options
    created,          \* pages onPageCreated has run for (page.useProxy exists)
    proxyCfgMap,      \* this.proxyCfgMap: page -> config, defined on the pages set
    reqHdlRegSet,     \* this.reqHdlRegSet
    listeners,        \* page -> number of 'request' listeners page.on attached
    interception,     \* page -> request interception enabled
    setInterceptionCalls, \* page -> number of page.setRequestInterception(true) calls
    useProxyArgs,     \* page -> arguments of the latest page.useProxy call
    useProxyCalls,    \* page -> number of page.useProxy calls
    requests          \* the request events raised so far, in order

vars == <<globalScope, host, opts, created, proxyCfgMap, reqHdlRegSet, listeners,
          interception, setInterceptionCalls, useProxyArgs, useProxyCalls, requests>>

\* ------------------------------------------------------------ useProxy

AttachAlways(set, page) == TRUE

\* if (!this.reqHdlRegSet.has(page))
ShouldAttach(set, page) == page \notin set

MergedCfg(old, proxyUrl, o) ==
    [proxy |-> proxyUrl,
     onlyNavigation |->
        IF o.onlyNavigation = "undefined" THEN old.onlyNavigation ELSE o.onlyNavigation,
     interceptResolutionPriority |->
        IF o.interceptResolutionPriority = "undefined"
        THEN old.interceptResolutionPriority ELSE o.interceptResolutionPriority]

\* { ...opts, proxy: proxyUrl }; old is the page's entry before the call
\* (all "undefined" when it has none), which the code does not read.
NewCfg(old, proxyUrl, o) ==
    [proxy |-> proxyUrl,
     onlyNavigation |-> o.onlyNavigation,
     interceptResolutionPriority |-> o.interceptResolutionPriority]

NoCfg == [proxy |-> "undefined", onlyNavigation |-> "undefined",
          interceptResolutionPriority |-> "undefined"]

OldCfg(page) == IF page \in DOMAIN proxyCfgMap THEN proxyCfgMap[page] ELSE NoCfg

MapSetAll(map, page, value) == [q \in DOMAIN map \cup {page} |-> value]

MapSetIfProxy(map, page, value) ==
    IF Truthy(value.proxy)
    THEN [q \in DOMAIN map \cup {page} |-> IF q = page THEN value ELSE map[q]]
    ELSE map

\* this.proxyCfgMap.set(page, value)
MapSet(map, page, value) ==
    [q \in DOMAIN map \cup {page} |-> IF q = page THEN value ELSE map[q]]

InterceptionCallsOnAttach(n, attached) == IF attached THEN n ELSE n + 1

\* return page.setRequestInterception(true): the number of such calls on the
\* page after a useProxy call, n before it; attached tells whether the page
\* was in reqHdlRegSet when useProxy was called.
InterceptionCallsAfter(n, attached) == n + 1

\* The body of page.useProxy(proxyUrl, opts = {}).
UseProxyEffect(page, proxyUrl, o) ==
    /\ proxyCfgMap' = MapSet(proxyCfgMap, page, NewCfg(OldCfg(page), proxyUrl, o))
    /\ IF ShouldAttach(reqHdlRegSet, page)
       THEN /\ listeners' = [listeners EXCEPT ![page] = @ + 1]
            /\ reqHdlRegSet' = reqHdlRegSet \cup {page}
       ELSE UNCHANGED <<listeners, reqHdlRegSet>>
    /\ interception' = [interception EXCEPT ![page] = TRUE]
    /\ setInterceptionCalls' =
          [setInterceptionCalls EXCEPT
              ![page] = InterceptionCallsAfter(@, page \in reqHdlRegSet)]
    /\ useProxyCalls' = [useProxyCalls EXCEPT ![page] = @ + 1]
    /\ useProxyArgs' =
          [q \in DOMAIN useProxyArgs \cup {page} |->
              IF q = page THEN [proxyUrl |-> proxyUrl, opts |-> o] ELSE useProxyArgs[q]]

\* onPageCreated(page): defines page.useProxy and, with a global proxy,
\* calls it with no arguments.
OnPageCreated(page) ==
    /\ page \notin created
    /\ created' = created \cup {page}
    /\ IF Truthy(opts.proxyUrl)
       THEN UseProxyEffect(page, "undefined", NoOpts)
       ELSE UNCHANGED <<proxyCfgMap, reqHdlRegSet, listeners, interception,
                        setInterceptionCalls, useProxyArgs, useProxyCalls>>
    /\ UNCHANGED <<globalScope, host, opts, requests>>

\* A caller's page.useProxy(proxyUrl, opts).
UseProxy(page, a) ==
    /\ page \in created
    /\ useProxyCalls[page] < MaxUseProxyCalls
    /\ UseProxyEffect(page, a.proxyUrl, a.opts)
    /\ UNCHANGED <<globalScope, host, opts, created, requests>>

\* ------------------------------------------------------------ onRequest

\* request.isInterceptResolutionHandled ? request.isInterceptResolutionHandled() : true
AlreadyHandled(hasMethod, handled) == IF hasMethod THEN handled ELSE TRUE

\* this.debug('onRequest', { type, shouldBlock, alreadyHandled }): the
\* argument is evaluated before the call, and reading an identifier that is
\* not bound throws a ReferenceError.
DebugArgsResolve(scope) == FreeIdentifiers \subseteq scope

\* if (!localProxyUrl && localProxyUrl !== undefined)
OptedOut(localProxyUrl) == ~Truthy(localProxyUrl) /\ localProxyUrl # "undefined"

\* A terminal action issued on the request.
Call(method, response, payload, priority) ==
    [method |-> method, response |-> response, payload |-> payload, priority |-> priority]

\* request.continue(...continueArgs)
ContinueCall(hasOverrides, priority) ==
    IF hasOverrides
    THEN Call("continue", NoResponse, "continueRequestOverrides()", priority)
    ELSE Call("continue", NoResponse, "undefined", "undefined")

RespondOther(respondWith, priority) ==
    Call("respond", [status |-> 200, headers |-> "", body |-> ""], "respondWith", priority)

RespondNoPriority(respondWith, priority) ==
    Call("respond", respondWith, "respondWith", "undefined")

\* request.respond(respondWith, interceptResolutionPriority)
RespondCall(respondWith, priority) == Call("respond", respondWith, "respondWith", priority)

AbortAsContinue(priority) == Call("continue", NoResponse, "undefined", priority)

\* request.abort('failed', interceptResolutionPriority)
AbortCall(priority) == Call("abort", NoResponse, "'failed'", priority)

\* One run of the handler: where it stands and its local variables.
Run(pc, error, alreadyHandled, cfg, priority, onlyNav, proxyUrl) ==
    [pc |-> pc, error |-> error, alreadyHandled |-> alreadyHandled, cfg |-> cfg,
     interceptResolutionPriority |-> priority, onlyNavigation |-> onlyNav,
     proxyUrl |-> proxyUrl, respondWith |-> NoResponse]

\* The do { ... } while (false) block up to the try: "continue" when one of
\* its breaks is taken, "proxy" when getProxiedResponse is called.
Decide(localProxyUrl, globalProxyUrl, onlyNav, isNavigationRequest) ==
    IF OptedOut(localProxyUrl) THEN "continue"
    ELSE IF ~Truthy(Or(localProxyUrl, globalProxyUrl)) THEN "continue"
    ELSE IF Truthy(onlyNav) /\ ~isNavigationRequest THEN "continue"
    ELSE "proxy"

\* onRequest(page, request) from its start to its return, its throw or its
\* await of getProxiedResponse: the run, the terminal actions it issued and
\* the proxies it called getProxiedResponse with.
OnRequest(page, req) ==
    LET alreadyHandled == AlreadyHandled(host.isInterceptResolutionHandled, req.handled)
        none == Run("returned", "none", alreadyHandled, NoCfg,
                    "undefined", "undefined", "undefined")
    IN  IF ~DebugArgsResolve(globalScope)
        THEN [run |-> [none EXCEPT !.pc = "threw", !.error = "ReferenceError"],
              calls |-> <<>>, dispatched |-> <<>>]
        ELSE IF alreadyHandled
        THEN [run |-> none, calls |-> <<>>, dispatched |-> <<>>]
        ELSE IF page \notin DOMAIN proxyCfgMap
        THEN [run |-> [none EXCEPT !.pc = "threw", !.error = "TypeError"],
              calls |-> <<>>, dispatched |-> <<>>]
        ELSE
        LET cfg == proxyCfgMap[page]
            priority == Or(cfg.interceptResolutionPriority, opts.interceptResolutionPriority)
            onlyNav == Or(cfg.onlyNavigation, opts.onlyNavigation)
            proxyUrl == Or(cfg.proxy, opts.proxyUrl)
        IN  IF Decide(cfg.proxy, opts.proxyUrl, onlyNav, req.isNavigationRequest) = "proxy"
            THEN [run |-> Run("awaiting", "none", alreadyHandled, cfg, priority, onlyNav,
                              proxyUrl),
                  calls |-> <<>>, dispatched |-> <<proxyUrl>>]
            ELSE [run |-> Run("returned", "none", alreadyHandled, cfg, priority, onlyNav,
                              "undefined"),
                  calls |-> <<ContinueCall(host.continueRequestOverrides, priority)>>,
                  dispatched |-> <<>>]

\* The concatenation of the sequences f[1], ..., f[n].
RECURSIVE Flatten(_, _)
Flatten(f, n) == IF n = 0 THEN <<>> ELSE Flatten(f, n - 1) \o f[n]

\* The host raises a request event on the page: every attached listener runs
\* up to its first suspension.
RaiseRequest(page, isNavigationRequest, handled) ==
    /\ page \in created
    /\ Len(requests) < MaxRequests
    /\ LET req == [page |-> page, isNavigationRequest |-> isNavigationRequest,
                   handled |-> handled]
           n == listeners[page]
           out == [i \in 1..n |-> OnRequest(page, req)]
       IN  requests' = Append(requests,
              [page |-> page, isNavigationRequest |-> isNavigationRequest,
               handled |-> handled,
               resolvedByOther |-> FALSE,
               runs |-> [i \in 1..n |-> out[i].run],
               calls |-> Flatten([i \in 1..n |-> out[i].calls], n),
               dispatched |-> Flatten([i \in 1..n |-> out[i].dispatched], n)])
    /\ UNCHANGED <<globalScope, host, opts, created, proxyCfgMap, reqHdlRegSet,
                   listeners, interception, setInterceptionCalls, useProxyArgs,
                   useProxyCalls>>

ResumePriorityReread(page, run) ==
    Or(OldCfg(page).interceptResolutionPriority, opts.interceptResolutionPriority)

\* The interceptResolutionPriority the handler passes after the await: the
\* const it resolved before calling getProxiedResponse.
ResumePriority(page, run) == run.interceptResolutionPriority

\* Another interceptor of the host resolves the request while the handler
\* is suspended in await getProxiedResponse(...).
OtherInterceptorResolves(r) ==
    /\ r \in 1..Len(requests)
    /\ ~requests[r].resolvedByOther
    /\ \E i \in DOMAIN requests[r].runs : requests[r].runs[i].pc = "awaiting"
    /\ requests' = [requests EXCEPT ![r].resolvedByOther = TRUE]
    /\ UNCHANGED <<globalScope, host, opts, created, proxyCfgMap, reqHdlRegSet,
                   listeners, interception, setInterceptionCalls, useProxyArgs,
                   useProxyCalls>>

\* getProxiedResponse resolves: the try block's return request.respond(...).
DispatcherResolves(r, i, respondWith) ==
    /\ r \in 1..Len(requests)
    /\ i \in 1..Len(requests[r].runs)
    /\ requests[r].runs[i].pc = "awaiting"
    /\ requests' = [requests EXCEPT
          ![r].runs[i].pc = "returned",
          ![r].runs[i].respondWith = respondWith,
          ![r].calls = Append(@,
              RespondCall(respondWith, ResumePriority(requests[r].page, requests[r].runs[i])))]
    /\ UNCHANGED <<globalScope, host, opts, created, proxyCfgMap, reqHdlRegSet,
                   listeners, interception, setInterceptionCalls, useProxyArgs,
                   useProxyCalls>>

\* getProxiedResponse rejects: the catch block's return request.abort(...).
DispatcherRejects(r, i) ==
    /\ r \in 1..Len(requests)
    /\ i \in 1..Len(requests[r].runs)
    /\ requests[r].runs[i].pc = "awaiting"
    /\ requests' = [requests EXCEPT
          ![r].runs[i].pc = "returned",
          ![r].runs[i].error = "caught",
          ![r].calls = Append(@,
              AbortCall(ResumePriority(requests[r].page, requests[r].runs[i])))]
    /\ UNCHANGED <<globalScope, host, opts, created, proxyCfgMap, reqHdlRegSet,
                   listeners, interception, setInterceptionCalls, useProxyArgs,
                   useProxyCalls>>

\* --------------------------------------------------------- specification

Init ==
    /\ globalScope \in SUBSET FreeIdentifiers
    /\ host \in [isInterceptResolutionHandled : BOOLEAN, continueRequestOverrides : BOOLEAN]
    /\ \E a \in ConstructorArgs : opts = Constructor(a.proxyUrl, a.opts)
    /\ created = {}
    /\ proxyCfgMap = << >>
    /\ reqHdlRegSet = {}
    /\ listeners = [p \in Pages |-> 0]
    /\ interception = [p \in Pages |-> FALSE]
    /\ setInterceptionCalls = [p \in Pages |-> 0]
    /\ useProxyArgs = << >>
    /\ useProxyCalls = [p \in Pages |-> 0]
    /\ requests = << >>

Next ==
    \/ \E page \in Pages : OnPageCreated(page)
    \/ \E page \in Pages, a \in UseProxyArgs : UseProxy(page, a)
    \/ \E page \in Pages, nav \in BOOLEAN, handled \in BOOLEAN :
          RaiseRequest(page, nav, handled)
    \/ \E r \in 1..Len(requests) : \E i \in 1..Len(requests[r].runs), resp \in Responses :
          DispatcherResolves(r, i, resp)
    \/ \E r \in 1..Len(requests) : \E i \in 1..Len(requests[r].runs) :
          DispatcherRejects(r, i)
    \/ \E r \in 1..Len(requests) : OtherInterceptorResolves(r)

Spec == Init /\ [][Next]_vars

TypeOK ==
    /\ created \subseteq Pages
    /\ DOMAIN proxyCfgMap \subseteq created
    /\ reqHdlRegSet \subseteq created
    /\ Len(requests) <= MaxRequests

\* ------------------------------------------------------------ claims

\* The request event the step raised, when it raised one.
Raised == Len(requests') > Len(requests)

NewRequest == requests'[Len(requests')]

Finished(q) == \A i \in DOMAIN q.runs : q.runs[i].pc # "awaiting"

Methods(q) == [k \in DOMAIN q.calls |-> q.calls[k].method]

\* C1: a request that is not resolved when its handler starts has, once the
\* handler has finished, been issued exactly one of continue, respond and
\* abort.
C1_ExactlyOneTerminalAction ==
    \A r \in DOMAIN requests :
        (requests[r].runs # <<>> /\ ~requests[r].handled /\ Finished(requests[r]))
            => Len(requests[r].calls) = 1

\* C2: a request raised on a page whose proxyUrl is set gets exactly one
\* getProxiedResponse call, and once that has settled exactly one respond or
\* abort and nothing else. (Stated for the requests no earlier step of the
\* handler diverts: not already resolved, a navigation request.)
C2_ProxiedExactlyOnce ==
    /\ [][(/\ Raised
           /\ NewRequest.page \in DOMAIN proxyCfgMap
           /\ Truthy(proxyCfgMap[NewRequest.page].proxy)
           /\ ~NewRequest.handled
           /\ NewRequest.isNavigationRequest)
          => (/\ Len(NewRequest.dispatched) = 1
              /\ NewRequest.calls = <<>>)]_vars
    /\ [](\A r \in DOMAIN requests :
            (Len(requests[r].dispatched) >= 1 /\ Finished(requests[r]))
               => /\ Len(requests[r].dispatched) = 1
                  /\ Len(requests[r].calls) = 1
                  /\ requests[r].calls[1].method \in {"respond", "abort"})

\* C3: when getProxiedResponse fails, the handler issues abort on the
\* request, issues no continue, and returns instead of throwing.
C3_FailureAborts ==
    \A r \in DOMAIN requests : \A i \in DOMAIN requests[r].runs :
        requests[r].runs[i].error = "caught"
            => /\ requests[r].runs[i].pc = "returned"
               /\ \E k \in DOMAIN requests[r].calls : requests[r].calls[k].method = "abort"
               /\ \A k \in DOMAIN requests[r].calls :
                     requests[r].calls[k].method # "continue"

C3_Witness ==
    \E r \in DOMAIN requests : \E i \in DOMAIN requests[r].runs :
        /\ requests[r].runs[i].error = "caught"
        /\ Methods(requests[r]) = <<"abort">>

\* C4: a request on a page with no proxy, neither its own (useProxy called
\* with proxyUrl undefined) nor a global one, is issued continue and
\* getProxiedResponse is not called for it.
C4_NoProxyContinues ==
    [][(/\ Raised
        /\ NewRequest.page \in DOMAIN proxyCfgMap
        /\ proxyCfgMap[NewRequest.page].proxy = "undefined"
        /\ ~Truthy(opts.proxyUrl)
        /\ ~NewRequest.handled)
       => (/\ Methods(NewRequest) = <<"continue">>
           /\ NewRequest.dispatched = <<>>)]_vars

\* C5: with a global proxy configured, a request on a page whose proxyUrl was
\* set to null or '' is issued continue and getProxiedResponse is not called
\* for it; a request on a page whose proxyUrl is undefined is dispatched
\* through the global proxy.
C5_OptOut ==
    [][(/\ Raised
        /\ NewRequest.page \in DOMAIN proxyCfgMap
        /\ Truthy(opts.proxyUrl)
        /\ ~NewRequest.handled)
       => LET page == NewRequest.page IN
          /\ proxyCfgMap[page].proxy \in {"null", "''"}
                => (/\ Methods(NewRequest) = <<"continue">>
                    /\ NewRequest.dispatched = <<>>)
          /\ (/\ proxyCfgMap[page].proxy = "undefined"
              /\ NewRequest.isNavigationRequest)
                => NewRequest.dispatched = <<opts.proxyUrl>>]_vars

\* C6: with the effective onlyNavigation true and a proxy set, a request
\* that is not a navigation request is issued continue without a
\* getProxiedResponse call, and a navigation request is dispatched.
C6_OnlyNavigation ==
    [][(/\ Raised
        /\ NewRequest.page \in DOMAIN proxyCfgMap
        /\ Truthy(proxyCfgMap[NewRequest.page].proxy)
        /\ "true" \in {proxyCfgMap[NewRequest.page].onlyNavigation, opts.onlyNavigation}
        /\ proxyCfgMap[NewRequest.page].onlyNavigation # "false"
        /\ ~NewRequest.handled)
       => IF NewRequest.isNavigationRequest
          THEN NewRequest.dispatched = <<proxyCfgMap[NewRequest.page].proxy>>
          ELSE /\ Methods(NewRequest) = <<"continue">>
               /\ NewRequest.dispatched = <<>>]_vars

\* C7: however many times useProxy was called on a page, the page has one
\* request listener, so a request has at most one handler run and at most
\* one getProxiedResponse call.
C7_OneHandler ==
    /\ \A page \in Pages :
          listeners[page] = IF page \in DOMAIN proxyCfgMap THEN 1 ELSE 0
    /\ \A r \in DOMAIN requests :
          /\ Len(requests[r].runs) <= 1
          /\ Len(requests[r].dispatched) <= 1

C7_Witness ==
    \E r \in DOMAIN requests :
        /\ setInterceptionCalls[requests[r].page] >= 2
        /\ Len(requests[r].runs) = 1
        /\ Len(requests[r].dispatched) = 1

\* C8: the page's config is exactly the options and the proxy of the latest
\* useProxy call on it, and a request sees the global value of each option
\* that call did not give.
C8_LastWriteWins ==
    [][/\ \A page \in DOMAIN proxyCfgMap' :
            proxyCfgMap'[page] =
               [proxy |-> useProxyArgs'[page].proxyUrl,
                onlyNavigation |-> useProxyArgs'[page].opts.onlyNavigation,
                interceptResolutionPriority |->
                    useProxyArgs'[page].opts.interceptResolutionPriority]
       /\ Raised =>
            \A i \in DOMAIN NewRequest.runs :
               LET run == NewRequest.runs[i]
                   given == useProxyArgs[NewRequest.page].opts
               IN  (run.pc # "threw" /\ ~run.alreadyHandled) =>
                     /\ given.onlyNavigation = "undefined"
                           => run.onlyNavigation = opts.onlyNavigation
                     /\ given.interceptResolutionPriority = "undefined"
                           => run.interceptResolutionPriority =
                                 opts.interceptResolutionPriority]_vars

\* A request still awaiting its response read onlyNavigation: true from the
\* page's config; a later useProxy call has replaced that config by one
\* without the option.
C8_Witness ==
    \E r \in DOMAIN requests : \E i \in DOMAIN requests[r].runs :
        LET page == requests[r].page IN
        /\ requests[r].runs[i].pc = "awaiting"
        /\ requests[r].runs[i].cfg.onlyNavigation = "true"
        /\ setInterceptionCalls[page] >= 2
        /\ proxyCfgMap[page].onlyNavigation = "undefined"
        /\ proxyCfgMap[page].proxy = ProxyB

\* C9: respond is called with the response getProxiedResponse resolved to,
\* and a request whose getProxiedResponse resolved is issued that respond and
\* nothing else.
C9_RespondsWithDispatcherResult ==
    \A r \in DOMAIN requests : \A i \in DOMAIN requests[r].runs :
        requests[r].runs[i].respondWith # NoResponse
            => /\ Methods(requests[r]) = <<"respond">>
               /\ requests[r].calls[1].response = requests[r].runs[i].respondWith

C9_Witness ==
    \E r \in DOMAIN requests : \E i \in DOMAIN requests[r].runs :
        /\ requests[r].runs[i].respondWith =
              [status |-> 302, headers |-> "location: /next", body |-> ""]
        /\ requests[r].calls[1].method = "respond"

\* C10: with a global proxyUrl, creating a page attaches the handler and
\* enables interception, and a request on the page, its config left as
\* onPageCreated set it, is dispatched through the global proxy; without a
\* global proxyUrl, creating a page attaches no handler and leaves
\* interception off.
C10_GlobalProxyOnPageCreated ==
    [][/\ \A page \in created' \ created :
            IF Truthy(opts.proxyUrl)
            THEN /\ listeners'[page] = 1
                 /\ interception'[page]
                 /\ page \in DOMAIN proxyCfgMap'
            ELSE /\ listeners'[page] = 0
                 /\ ~interception'[page]
                 /\ page \notin DOMAIN proxyCfgMap'
       /\ (/\ Raised
           /\ Truthy(opts.proxyUrl)
           /\ NewRequest.page \in DOMAIN proxyCfgMap
           /\ proxyCfgMap[NewRequest.page] = NoCfg
           /\ ~NewRequest.handled
           /\ (NewRequest.isNavigationRequest \/ opts.onlyNavigation # "true"))
          => NewRequest.dispatched = <<opts.proxyUrl>>]_vars

\* A run that got as far as resolving its settings.
Resolved(run) == run.pc # "threw" /\ ~run.alreadyHandled

\* C11 (as stated): useProxy attaches the handler and enables interception,
\* and page.setRequestInterception is invoked at most once per page.
C11_InterceptionEnabledOnce ==
    \A page \in Pages :
        /\ useProxyCalls[page] >= 1 => (listeners[page] = 1 /\ interception[page])
        /\ setInterceptionCalls[page] <= 1

\* C11 (amended): the first useProxy call attaches the handler and enables
\* interception; a later call attaches no handler and leaves interception
\* enabled, and every useProxy call invokes page.setRequestInterception(true)
\* once.
C11_InterceptionEnabledPerCall ==
    \A page \in Pages :
        /\ listeners[page] = IF useProxyCalls[page] >= 1 THEN 1 ELSE 0
        /\ interception[page] = (useProxyCalls[page] >= 1)
        /\ setInterceptionCalls[page] = useProxyCalls[page]

C11_Witness ==
    \E page \in Pages :
        /\ useProxyCalls[page] = 2
        /\ setInterceptionCalls[page] = 2
        /\ listeners[page] = 1
        /\ interception[page]

\* The proxy URLs that begin with a supported scheme.
WellFormedProxyUrls == {ProxyA, ProxyB, ProxyG}

Malformed(v) == v \in JSStrings \ (WellFormedProxyUrls \cup {"''"})

\* C12: a non-empty proxyUrl without a supported scheme is rejected when it
\* is configured: it is stored neither as the global proxy nor as a page's,
\* and no request is dispatched through it.
C12_MalformedProxyRejected ==
    /\ ~Malformed(opts.proxyUrl)
    /\ \A page \in DOMAIN proxyCfgMap : ~Malformed(proxyCfgMap[page].proxy)
    /\ \A r \in DOMAIN requests : \A k \in DOMAIN requests[r].dispatched :
          ~Malformed(requests[r].dispatched[k])

\* C13: the handler issues nothing on a resolved request: a request resolved
\* before the handler started gets no terminal action and no
\* getProxiedResponse call, and a request another interceptor resolved while
\* the handler awaited getProxiedResponse gets no respond or abort afterwards.
C13_NeverResolvesTwice ==
    \A r \in DOMAIN requests :
        /\ (\E i \in DOMAIN requests[r].runs : requests[r].runs[i].alreadyHandled)
              => (requests[r].calls = <<>> /\ requests[r].dispatched = <<>>)
        /\ requests[r].resolvedByOther => requests[r].calls = <<>>

\* a ?? b
Nullish(a, b) == IF a \in {"undefined", "null"} THEN b ELSE a

\* C14: the effective onlyNavigation and interceptResolutionPriority of a
\* request are the page's value when it is set (neither null nor undefined)
\* and the global value otherwise.
C14_NullishFallback ==
    \A r \in DOMAIN requests : \A i \in DOMAIN requests[r].runs :
        LET run == requests[r].runs[i] IN
        Resolved(run) =>
            /\ run.onlyNavigation = Nullish(run.cfg.onlyNavigation, opts.onlyNavigation)
            /\ run.interceptResolutionPriority =
                  Nullish(run.cfg.interceptResolutionPriority,
                          opts.interceptResolutionPriority)

\* C15 (as stated): every terminal action carries the priority the handler
\* resolved, continue together with the host's request overrides.
C15_PriorityOnEveryAction ==
    \A r \in DOMAIN requests : \A k \in DOMAIN requests[r].calls :
        /\ \E i \in DOMAIN requests[r].runs :
              requests[r].calls[k].priority = requests[r].runs[i].interceptResolutionPriority
        /\ requests[r].calls[k].method = "continue"
              => requests[r].calls[k].payload = "continueRequestOverrides()"

\* C15 (amended): respond and abort carry the priority the handler resolved
\* for the request; continue carries it, together
\* with the host's request overrides, when the request has
\* continueRequestOverrides, and is issued with no argument otherwise.
C15_PriorityWhereSupported ==
    \A r \in DOMAIN requests : \A k \in DOMAIN requests[r].calls :
        LET call == requests[r].calls[k] IN
        IF call.method = "continue" /\ ~host.continueRequestOverrides
        THEN call.payload = "undefined" /\ call.priority = "undefined"
        ELSE /\ \E i \in DOMAIN requests[r].runs :
                   LET run == requests[r].runs[i] IN
                   Resolved(run) /\ call.priority = run.interceptResolutionPriority
             /\ call.method = "continue" => call.payload = "continueRequestOverrides()"

C15_Witness ==
    \E r \in DOMAIN requests :
        /\ Methods(requests[r]) = <<"respond">>
        /\ requests[r].calls[1].priority = "1"

\* C16: a request without isInterceptResolutionHandled is treated as not
\* handled and gets a terminal action; without continueRequestOverrides the
\* fallback continue is issued with no overrides.
C16_MissingHostMethods ==
    \A r \in DOMAIN requests :
        /\ ~host.isInterceptResolutionHandled =>
              /\ \A i \in DOMAIN requests[r].runs : ~requests[r].runs[i].alreadyHandled
              /\ (requests[r].runs # <<>> /\ Finished(requests[r]))
                    => requests[r].calls # <<>>
        /\ ~host.continueRequestOverrides =>
              \A k \in DOMAIN requests[r].calls :
                 requests[r].calls[k].method = "continue"
                    => requests[r].calls[k].payload = "undefined"

\* C17: no request stalls: once getProxiedResponse has settled (or was not
\* called), a request that was not resolved when its handler started has
\* received a terminal action.
C17_NoStall ==
    \A r \in DOMAIN requests :
        \A i \in DOMAIN requests[r].runs :
            (~requests[r].handled /\ requests[r].runs[i].pc # "awaiting")
                => \E k \in DOMAIN requests[r].calls :
                      requests[r].calls[k].method \in {"continue", "respond", "abort"}

\* C18: a step changes the config, the handler registration and the
\* interception state only of the page useProxy is called on in it, and
\* never the global options; a step of onRequest changes none of them.
C18_Frame ==
    [][/\ opts' = opts
       /\ \A page \in Pages :
             useProxyCalls'[page] = useProxyCalls[page] =>
                /\ (page \in DOMAIN proxyCfgMap') = (page \in DOMAIN proxyCfgMap)
                /\ page \in DOMAIN proxyCfgMap => proxyCfgMap'[page] = proxyCfgMap[page]
                /\ (page \in reqHdlRegSet') = (page \in reqHdlRegSet)
                /\ listeners'[page] = listeners[page]
                /\ interception'[page] = interception[page]
                /\ setInterceptionCalls'[page] = setInterceptionCalls[page]
       /\ requests' # requests => useProxyCalls' = useProxyCalls]_vars

C18_Witness ==
    /\ DOMAIN proxyCfgMap = Pages
    /\ proxyCfgMap["page1"].proxy = ProxyA
    /\ proxyCfgMap["page2"].proxy = "null"
    /\ useProxyCalls["page1"] = 2
    /\ \E r \in DOMAIN requests : requests[r].runs # <<>> /\ Finished(requests[r])

\* C19: a page with a request handler has a config entry, so the handler's
\* config lookup never finds the entry missing.
C19_HandledPageHasConfig ==
    /\ reqHdlRegSet \subseteq DOMAIN proxyCfgMap
    /\ \A page \in Pages : listeners[page] > 0 => page \in DOMAIN proxyCfgMap
    /\ \A r \in DOMAIN requests : \A i \in DOMAIN requests[r].runs :
          requests[r].runs[i].error # "TypeError"

C19_Witness ==
    \E r \in DOMAIN requests : \E i \in DOMAIN requests[r].runs :
        /\ Resolved(requests[r].runs[i])
        /\ requests[r].page \in reqHdlRegSet
        /\ requests[r].runs[i].cfg.proxy = "undefined"
        /\ requests[r].dispatched = <<ProxyG>>

\* C20: a request uses the settings in effect when its event is handled: its
\* getProxiedResponse call gets the proxy resolved from the config of that
\* moment, its respond or abort the priority resolved from it, and a
\* useProxy call changes nothing of a request already raised.
C20_SettingsFixedAtEvent ==
    [][/\ Raised =>
            \A i \in DOMAIN NewRequest.runs :
               LET run == NewRequest.runs[i] IN
               Resolved(run) =>
                  /\ run.cfg = proxyCfgMap[NewRequest.page]
                  /\ run.pc = "awaiting" =>
                        NewRequest.dispatched =
                           <<Or(proxyCfgMap[NewRequest.page].proxy, opts.proxyUrl)>>
       /\ \A r \in DOMAIN requests :
             requests'[r].calls # requests[r].calls =>
                /\ requests'[r].dispatched = requests[r].dispatched
                /\ \E i \in DOMAIN requests[r].runs :
                      /\ requests[r].runs[i].pc = "awaiting"
                      /\ requests'[r].runs[i].pc = "returned"
                      /\ requests'[r].calls[Len(requests'[r].calls)].priority =
                            Or(requests[r].runs[i].cfg.interceptResolutionPriority,
                               opts.interceptResolutionPriority)
       /\ useProxyCalls' # useProxyCalls => requests' = requests]_vars

\* A request read priority 1 from its page's config and was answered with
\* it, while the page's config now gives another priority.
C20_Witness ==
    \E r \in DOMAIN requests : \E i \in DOMAIN requests[r].runs :
        /\ requests[r].runs[i].cfg.interceptResolutionPriority = "1"
        /\ requests[r].dispatched = <<ProxyB>>
        /\ Len(requests[r].calls) = 1
        /\ requests[r].calls[1].method \in {"respond", "abort"}
        /\ requests[r].calls[1].priority = "1"
        /\ proxyCfgMap[requests[r].page].interceptResolutionPriority # "1"

====
